---- MODULE Spec2Model ----
(***************************************************************************)
(* Model of the canoe rental store (src/services/DatabaseService.ts) and   *)
(* of the screens that write to it: reservations, audit history, inventory *)
(* settings, the availability / overbooking computation and the status     *)
(* lifecycle.                                                              *)
(***************************************************************************)
EXTENDS Integers, Sequences, FiniteSets, TLC

(* ------------------------------------------------------------------ *)
(* Bounds of the model                                                 *)
(* ------------------------------------------------------------------ *)

\* rows ever inserted into the reservations table (AUTOINCREMENT ids 1..MaxRes)
MaxRes == 2
\* largest single / double canoe count a form or a backup file asks for
MaxSingle == 1
MaxDouble == 1
\* rows of reservation_history
MaxHist == 2
\* instants of the wall clock
MaxTime == 2
\* uses counted for one client name
MaxUsage == 3
\* status edits made while the inventory is explored
MaxEdits == 1

(* ------------------------------------------------------------------ *)
(* Values                                                              *)
(* ------------------------------------------------------------------ *)

\* SQL NULL / a column never written
NULL == 0 - 1
\* a key of Partial<Reservation> whose value is undefined
UNDEFINED == "undefined"
\* excludeId not passed
NoId == 0
\* what a call hands back: nothing, a thrown error, an alert of the screen
Void == [returned |-> "void"]
NotFound == [returned |-> "error"]

ThrownSwallowed(message) == Void

\* throw new Error(message) out of the catch block of a lifecycle method
Thrown(message) == [returned |-> "error", message |-> message]
Alert(what) == [returned |-> "alert", what |-> what]
\* a table without rows
EmptyTable == [k \in {} |-> k]

Slots == {"morning", "afternoon", "full_day"}
Statuses == {"pending", "on_water", "completed", "canceled"}
Dates == {"2025-06-01", "2025-06-02"}

NumericFields == {"nb_people", "single_canoes", "double_canoes"}
TimestampFields ==
  {"created_at", "updated_at", "actual_arrival_time", "departure_time", "return_time"}

Max(a, b) == IF a >= b THEN a ELSE b
Min(a, b) == IF a <= b THEN a ELSE b

VARIABLES
  reservations,   \* table reservations: id -> row
  history,        \* table reservation_history, in insertion order
  settings,       \* the settings row (id = 1)
  client_names,   \* table client_names: name -> row
  nextId,         \* next AUTOINCREMENT id of reservations
  now,            \* the wall clock
  result,         \* what the last call returned to its caller
  inflight        \* the submissions of the form between their overbooking check
                  \* and their INSERT: press -> the data submitted

vars == <<reservations, history, settings, client_names, nextId, now, result,
         inflight>>

store == <<reservations, history, settings, client_names, nextId>>

(* ------------------------------------------------------------------ *)
(* Availability                                                        *)
(* ------------------------------------------------------------------ *)

\* SELECT * FROM reservations [WHERE date = ?]: the ids of the rows; the filter
\* is added only "if (date)", and "" stands for a date that was not passed
getReservations(rs, date) ==
  IF date = "" THEN DOMAIN rs ELSE {id \in DOMAIN rs : rs[id].date = date}

IsActiveAnyNotCanceled(r) == r.status # "canceled"

\* the filter of getAvailability: only pending and on_water rows consume canoes
IsActive(r) == r.status = "pending" \/ r.status = "on_water"

UsesMorningOnlyOwnSlot(r) == r.timeslot = "morning"

\* the rows whose canoes are added to morningUsed
UsesMorning(r) == r.timeslot = "morning" \/ r.timeslot = "full_day"

UsesAfternoonOnlyOwnSlot(r) == r.timeslot = "afternoon"

\* the rows whose canoes are added to afternoonUsed
UsesAfternoon(r) == r.timeslot = "afternoon" \/ r.timeslot = "full_day"

\* the forEach of getAvailability: one pass over the active rows, adding to the
\* two accumulators
RECURSIVE AccumulateUsed(_, _, _)
AccumulateUsed(rs, ids, acc) ==
  IF ids = {} THEN acc
  ELSE LET id == CHOOSE i \in ids : TRUE
           r == rs[id]
           m == IF UsesMorning(r)
                THEN [single |-> acc.morning.single + r.single_canoes,
                      double |-> acc.morning.double + r.double_canoes]
                ELSE acc.morning
           a == IF UsesAfternoon(r)
                THEN [single |-> acc.afternoon.single + r.single_canoes,
                      double |-> acc.afternoon.double + r.double_canoes]
                ELSE acc.afternoon
       IN AccumulateUsed(rs, ids \ {id}, [morning |-> m, afternoon |-> a])

\* Math.max(0, total - used)
Remaining(total, used) == Max(0, total - used)

\* Math.min(morning, afternoon)
FullDayOf(m, a) == Min(m, a)

getAvailability(rs, st, date) ==
  LET active == {id \in getReservations(rs, date) : IsActive(rs[id])}
      used == AccumulateUsed(rs, active,
                [morning |-> [single |-> 0, double |-> 0],
                 afternoon |-> [single |-> 0, double |-> 0]])
      morning == [single |-> Remaining(st.total_single_canoes, used.morning.single),
                  double |-> Remaining(st.total_double_canoes, used.morning.double),
                  total_single |-> st.total_single_canoes,
                  total_double |-> st.total_double_canoes]
      afternoon == [single |-> Remaining(st.total_single_canoes, used.afternoon.single),
                    double |-> Remaining(st.total_double_canoes, used.afternoon.double),
                    total_single |-> st.total_single_canoes,
                    total_double |-> st.total_double_canoes]
      full_day == [single |-> FullDayOf(morning.single, afternoon.single),
                   double |-> FullDayOf(morning.double, afternoon.double),
                   total_single |-> st.total_single_canoes,
                   total_double |-> st.total_double_canoes]
  IN [morning |-> morning, afternoon |-> afternoon, full_day |-> full_day]

(* ------------------------------------------------------------------ *)
(* Overbooking                                                         *)
(* ------------------------------------------------------------------ *)

\* Math.min(total, remaining + own): the canoes of the edited row go back to the pool
AddBack(total, remaining, own) == Min(total, remaining + own)

\* the availability record after the excludeId branch of checkOverbooking
availabilityExcluding(rs, st, date, excludeId) ==
  LET av == getAvailability(rs, st, date)
  IN IF excludeId # NoId /\ excludeId \in DOMAIN rs /\ rs[excludeId].date = date
     THEN LET cur == rs[excludeId]
              m == IF UsesMorning(cur)
                   THEN [av.morning EXCEPT
                           !.single = AddBack(st.total_single_canoes, @, cur.single_canoes),
                           !.double = AddBack(st.total_double_canoes, @, cur.double_canoes)]
                   ELSE av.morning
              a == IF UsesAfternoon(cur)
                   THEN [av.afternoon EXCEPT
                           !.single = AddBack(st.total_single_canoes, @, cur.single_canoes),
                           !.double = AddBack(st.total_double_canoes, @, cur.double_canoes)]
                   ELSE av.afternoon
              f == [av.full_day EXCEPT
                      !.single = Min(m.single, a.single),
                      !.double = Min(m.double, a.double)]
          IN [morning |-> m, afternoon |-> a, full_day |-> f]
     ELSE av

ExceedsOrEquals(requested, available) == requested >= available

\* singleCanoes > availableSlot.single
Exceeds(requested, available) == requested > available

NoMessage == [issues |-> <<>>, single |-> NULL, double |-> NULL]

overbookingMessageOfTotals(slot, singleCanoes, doubleCanoes) ==
  [issues |->
     (IF Exceeds(singleCanoes, slot.single)
      THEN <<[canoe |-> "single", excess |-> singleCanoes - slot.single]>> ELSE <<>>)
     \o
     (IF Exceeds(doubleCanoes, slot.double)
      THEN <<[canoe |-> "double", excess |-> doubleCanoes - slot.double]>> ELSE <<>>),
   single |-> slot.total_single,
   double |-> slot.total_double]

\* the message of checkOverbooking: the issues in the order they are pushed, then
\* "Disponible: <single>S + <double>D"
overbookingMessage(slot, singleCanoes, doubleCanoes) ==
  [issues |->
     (IF Exceeds(singleCanoes, slot.single)
      THEN <<[canoe |-> "single", excess |-> singleCanoes - slot.single]>> ELSE <<>>)
     \o
     (IF Exceeds(doubleCanoes, slot.double)
      THEN <<[canoe |-> "double", excess |-> doubleCanoes - slot.double]>> ELSE <<>>),
   single |-> slot.single,
   double |-> slot.double]

checkOverbooking(rs, st, date, timeslot, singleCanoes, doubleCanoes, excludeId) ==
  LET av == availabilityExcluding(rs, st, date, excludeId)
  IN IF timeslot \notin Slots
     THEN [isOverbooked |-> FALSE, message |-> NoMessage]
     ELSE LET slot == av[timeslot]
          IN IF Exceeds(singleCanoes, slot.single) \/ Exceeds(doubleCanoes, slot.double)
             THEN [isOverbooked |-> TRUE,
                   message |-> overbookingMessage(slot, singleCanoes, doubleCanoes)]
             ELSE [isOverbooked |-> FALSE, message |-> NoMessage]

(* ------------------------------------------------------------------ *)
(* Rows                                                                *)
(* ------------------------------------------------------------------ *)

\* the row INSERTed by createReservation: the columns it names, the defaults of
\* CREATE TABLE for the others
newRow(r, t) ==
  [name |-> r.name, date |-> r.date, nb_people |-> r.nb_people,
   single_canoes |-> r.single_canoes, double_canoes |-> r.double_canoes,
   arrival_time |-> r.arrival_time, timeslot |-> r.timeslot, status |-> r.status,
   created_at |-> t, updated_at |-> t,
   actual_arrival_time |-> NULL, departure_time |-> NULL, return_time |-> NULL]

\* INSERT INTO client_names ... ON CONFLICT(name) DO UPDATE SET usage_count + 1
updateClientName(cn, name, t) ==
  IF name \in DOMAIN cn
  THEN [cn EXCEPT ![name] = [usage_count |-> @.usage_count + 1, last_used |-> t]]
  ELSE cn @@ (name :> [usage_count |-> 1, last_used |-> t])

\* String(value) as updateReservation writes it to the history
Str(key, v) ==
  IF key \in NumericFields THEN ToString(v)
  ELSE IF key \in TimestampFields THEN (IF v = NULL THEN "null" ELSE ToString(v))
  ELSE v

historyRowSwapped(reservationId, fieldName, oldValue, newValue, t) ==
  [reservation_id |-> reservationId, field_name |-> fieldName,
   old_value |-> newValue, new_value |-> oldValue, changed_at |-> t]

\* the row INSERTed by addReservationHistory
historyRow(reservationId, fieldName, oldValue, newValue, t) ==
  [reservation_id |-> reservationId, field_name |-> fieldName,
   old_value |-> oldValue, new_value |-> newValue, changed_at |-> t]

CoalesceOverwrite(old, new) == new

\* COALESCE(actual_arrival_time, ?)
Coalesce(old, new) == IF old # NULL THEN old ELSE new

(* ------------------------------------------------------------------ *)
(* Store operations                                                    *)
(* ------------------------------------------------------------------ *)

\* createReservation(reservation): the INSERT, then updateClientName
createReservation(r) ==
  /\ reservations' = reservations @@ (nextId :> newRow(r, now))
  /\ nextId' = nextId + 1
  /\ client_names' = updateClientName(client_names, r.name, now)

CanInsert(n) == nextId + n <= MaxRes + 1
CanLog(n) == Len(history) + n <= MaxHist
CanCount(name) ==
  IF name \in DOMAIN client_names THEN client_names[name].usage_count < MaxUsage
  ELSE TRUE

\* UPDATE reservations SET status = 'on_water', actual_arrival_time =
\* COALESCE(actual_arrival_time, ?), departure_time = ?, updated_at = CURRENT_TIMESTAMP
onWaterRow(r, t) ==
  [r EXCEPT !.status = "on_water",
            !.actual_arrival_time = Coalesce(@, t),
            !.departure_time = t,
            !.updated_at = t]

completedRowFirstReturnWins(r, t) ==
  [r EXCEPT !.status = "completed",
            !.return_time = Coalesce(@, t),
            !.updated_at = t]

\* UPDATE reservations SET status = 'completed', return_time = ?,
\* updated_at = CURRENT_TIMESTAMP
completedRow(r, t) ==
  [r EXCEPT !.status = "completed",
            !.return_time = t,
            !.updated_at = t]

markReservationOnWater(id) ==
  IF id \notin DOMAIN reservations
  THEN /\ result' = Thrown("Impossible de marquer la reservation sur l'eau")
       /\ UNCHANGED <<store, now, inflight>>
  ELSE /\ CanLog(1)
       /\ reservations' = [reservations EXCEPT ![id] = onWaterRow(@, now)]
       /\ history' = Append(history,
            historyRow(id, "status", reservations[id].status, "on_water", now))
       /\ result' = Void
       /\ UNCHANGED <<settings, client_names, nextId, now, inflight>>

markReservationCompleted(id) ==
  IF id \notin DOMAIN reservations
  THEN /\ result' = Thrown("Impossible de marquer la reservation comme terminee")
       /\ UNCHANGED <<store, now, inflight>>
  ELSE /\ CanLog(1)
       /\ reservations' = [reservations EXCEPT ![id] = completedRow(@, now)]
       /\ history' = Append(history,
            historyRow(id, "status", reservations[id].status, "completed", now))
       /\ result' = Void
       /\ UNCHANGED <<settings, client_names, nextId, now, inflight>>

\* updateReservationStatus(id, newStatus): on_water and completed go through the two
\* lifecycle methods, pending and canceled are written directly
updateReservationStatus(id, newStatus) ==
  IF id \notin DOMAIN reservations
  THEN /\ result' = NotFound
       /\ UNCHANGED <<store, now, inflight>>
  ELSE IF newStatus = "on_water" THEN markReservationOnWater(id)
  ELSE IF newStatus = "completed" THEN markReservationCompleted(id)
  ELSE /\ CanLog(1)
       /\ reservations' = [reservations EXCEPT ![id] =
            [@ EXCEPT !.status = newStatus, !.updated_at = now]]
       /\ history' = Append(history,
            historyRow(id, "status", reservations[id].status, newStatus, now))
       /\ result' = Void
       /\ UNCHANGED <<settings, client_names, nextId, now, inflight>>

\* the entries of Object.entries(reservation) that updateReservation writes
IsWritten(c) == c.key # "id" /\ c.key # "created_at" /\ c.defined

keysOf(cs) == {cs[i].key : i \in DOMAIN cs}

\* the keys of an object are distinct
valueOf(cs, key) == cs[CHOOSE i \in DOMAIN cs : cs[i].key = key].value

DiffersAlways(cur, c) == TRUE

\* currentValue !== value
Differs(cur, c) == cur[c.key] # c.value

RECURSIVE historyRowsOf(_, _, _, _)
historyRowsOf(id, cur, cs, t) ==
  IF cs = <<>> THEN <<>>
  ELSE <<historyRow(id, Head(cs).key, Str(Head(cs).key, cur[Head(cs).key]),
                    Str(Head(cs).key, Head(cs).value), t)>>
       \o historyRowsOf(id, cur, Tail(cs), t)

\* fields.push('updated_at = CURRENT_TIMESTAMP'): the rightmost assignment of the
\* UPDATE, so it wins over a supplied updated_at
Refreshed(old, t) == t

updatedRowStamping(cur, written, t) ==
  [f \in DOMAIN cur |->
     IF f = "updated_at" THEN Refreshed(cur[f], t)
     ELSE IF f \in keysOf(written) THEN valueOf(written, f)
     ELSE IF f = "departure_time" /\ "status" \in keysOf(written)
               /\ valueOf(written, "status") = "on_water" THEN t
     ELSE IF f = "return_time" /\ "status" \in keysOf(written)
               /\ valueOf(written, "status") = "completed" THEN t
     ELSE cur[f]]

\* UPDATE reservations SET <key> = ?, ..., updated_at = CURRENT_TIMESTAMP
updatedRow(cur, written, t) ==
  [f \in DOMAIN cur |->
     IF f = "updated_at" THEN Refreshed(cur[f], t)
     ELSE IF f \in keysOf(written) THEN valueOf(written, f)
     ELSE cur[f]]

updateReservation(id, changes) ==
  IF id \notin DOMAIN reservations
  THEN /\ result' = Void
       /\ UNCHANGED <<store, now, inflight>>
  ELSE LET cur == reservations[id]
           written == SelectSeq(changes, IsWritten)
           changed == SelectSeq(written, LAMBDA c : Differs(cur, c))
           named == \E i \in DOMAIN changes :
                      changes[i].key = "name" /\ changes[i].defined
                        /\ changes[i].value # ""
       IN IF written = <<>>
          THEN /\ result' = Void
               /\ UNCHANGED <<store, now, inflight>>
          ELSE /\ CanLog(Len(changed))
               /\ named => CanCount(valueOf(changes, "name"))
               /\ reservations' = [reservations EXCEPT ![id] = updatedRow(cur, written, now)]
               /\ history' = history \o historyRowsOf(id, cur, changed, now)
               /\ client_names' =
                    IF named
                    THEN updateClientName(client_names, valueOf(changes, "name"), now)
                    ELSE client_names
               /\ result' = Void
               /\ UNCHANGED <<settings, nextId, now, inflight>>

duplicateReservation(id) ==
  IF id \notin DOMAIN reservations
  THEN /\ result' = NotFound
       /\ UNCHANGED <<store, now, inflight>>
  ELSE LET copy == [reservations[id] EXCEPT !.name = @ \o " (Copy)",
                                            !.status = "pending"]
       IN /\ CanInsert(1)
          /\ createReservation(copy)
          /\ result' = [returned |-> "id", value |-> nextId]
          /\ UNCHANGED <<history, settings, now, inflight>>

\* DELETE FROM reservations WHERE id = ?   The connection never turns
\* PRAGMA foreign_keys on, so ON DELETE CASCADE removes no history row.
deleteReservation(id) ==
  /\ reservations' = [i \in DOMAIN reservations \ {id} |-> reservations[i]]
  /\ result' = Void
  /\ UNCHANGED <<history, settings, client_names, nextId, now, inflight>>

(* ------------------------------------------------------------------ *)
(* Settings and backup files                                           *)
(* ------------------------------------------------------------------ *)

\* the row INSERTed by initializeSettings
DefaultSingle == 10
DefaultDouble == 5

\* updateSettings(settings): every key of the argument with a defined value is written
updateSettings(st, totals) ==
  [st EXCEPT !.total_single_canoes = totals.total_single_canoes,
             !.total_double_canoes = totals.total_double_canoes]

\* SettingsScreen.handleSave: negative totals and an empty inventory are refused
\* with an alert before updateSettings is called
handleSave(temp) ==
  IF temp.total_single_canoes < 0 \/ temp.total_double_canoes < 0
       \/ (temp.total_single_canoes = 0 /\ temp.total_double_canoes = 0)
  THEN /\ result' = Alert("settings")
       /\ UNCHANGED <<store, now, inflight>>
  ELSE /\ settings' = updateSettings(settings, temp)
       /\ result' = Void
       /\ UNCHANGED <<reservations, history, client_names, nextId, now, inflight>>

\* the rows INSERTed by the loop of importData, keyed by the ids AUTOINCREMENT gives
importedRows(rows, first) ==
  [i \in {first + k - 1 : k \in 1..Len(rows)} |-> rows[i - first + 1]]

\* the INSERT of importData succeeds: nb_people INTEGER NOT NULL, the CHECKs of
\* timeslot and status (the text columns of the files modelled are never null)
Insertable(row) ==
  /\ row.nb_people # NULL
  /\ row.timeslot \in Slots
  /\ row.status \in Statuses

\* the rows inserted before the first INSERT that throws
RECURSIVE InsertedBeforeFailure(_)
InsertedBeforeFailure(rows) ==
  IF rows = <<>> THEN <<>>
  ELSE IF ~Insertable(Head(rows)) THEN <<>>
  ELSE <<Head(rows)>> \o InsertedBeforeFailure(Tail(rows))

\* importData(jsonData).  file.parsed: JSON.parse succeeded; file.hasReservations:
\* data.reservations is an array; file.hasSettings: data.settings is present.
\* DELETE FROM reservations leaves the history rows (no foreign key enforcement)
\* and does not reset the AUTOINCREMENT sequence.  The statements run one by one,
\* outside any transaction: an INSERT that throws leaves the DELETEs and the
\* earlier INSERTs in place and the catch block returns success: false.
importData(file) ==
  IF ~file.parsed
  THEN /\ result' = [returned |-> "import", value |-> FALSE]
       /\ UNCHANGED <<store, now, inflight>>
  ELSE IF ~file.hasReservations
  THEN /\ result' = [returned |-> "import", value |-> FALSE]
       /\ UNCHANGED <<store, now, inflight>>
  ELSE LET inserted == InsertedBeforeFailure(file.reservations)
       IN IF Len(inserted) < Len(file.reservations)
          THEN /\ CanInsert(Len(inserted))
               /\ reservations' = importedRows(inserted, nextId)
               /\ nextId' = nextId + Len(inserted)
               /\ client_names' = EmptyTable
               /\ result' = [returned |-> "import", value |-> FALSE]
               /\ UNCHANGED <<history, settings, now, inflight>>
          ELSE /\ CanInsert(Len(file.reservations))
               /\ reservations' = importedRows(file.reservations, nextId)
               /\ nextId' = nextId + Len(file.reservations)
               /\ client_names' = file.client_names
               /\ settings' = IF file.hasSettings
                              THEN updateSettings(settings, file.settings)
                              ELSE settings
               /\ result' = [returned |-> "import", value |-> TRUE]
               /\ UNCHANGED <<history, now, inflight>>

(* ------------------------------------------------------------------ *)
(* The reservation form                                                *)
(* ------------------------------------------------------------------ *)

\* AddReservation.onSubmit(data), then createReservation(data) with status pending.
\* confirm: the user presses "Continuer" on the overbooking warning.
onSubmit(data, confirm) ==
  IF data.single_canoes = 0 /\ data.double_canoes = 0
  THEN /\ result' = Alert("no canoe")
       /\ UNCHANGED <<store, now, inflight>>
  ELSE IF data.single_canoes * 1 + data.double_canoes * 2 < data.nb_people
  THEN /\ result' = Alert("capacity")
       /\ UNCHANGED <<store, now, inflight>>
  ELSE LET chk == checkOverbooking(reservations, settings, data.date, data.timeslot,
                                   data.single_canoes, data.double_canoes, NoId)
       IN IF chk.isOverbooked /\ ~confirm
          THEN /\ result' = Alert("overbooking")
               /\ UNCHANGED <<store, now, inflight>>
          ELSE /\ CanInsert(1)
               /\ CanCount(data.name)
               /\ createReservation([data EXCEPT !.status = "pending"])
               /\ result' = Void
               /\ UNCHANGED <<history, settings, now, inflight>>

(* ------------------------------------------------------------------ *)
(* Queries                                                             *)
(* ------------------------------------------------------------------ *)

getAvailabilityCall(date) ==
  /\ result' = [returned |-> "availability", date |-> date,
                value |-> getAvailability(reservations, settings, date)]
  /\ UNCHANGED <<store, now, inflight>>

checkOverbookingCallLocking(date, timeslot, singleCanoes, doubleCanoes, excludeId) ==
  /\ result' = [returned |-> "overbooking", date |-> date, timeslot |-> timeslot,
                singleCanoes |-> singleCanoes, doubleCanoes |-> doubleCanoes,
                excludeId |-> excludeId,
                value |-> checkOverbooking(reservations, settings, date, timeslot,
                                           singleCanoes, doubleCanoes, excludeId)]
  /\ settings' = [settings EXCEPT
                    !.total_single_canoes = Max(0, @ - singleCanoes),
                    !.total_double_canoes = Max(0, @ - doubleCanoes)]
  /\ UNCHANGED <<reservations, history, client_names, nextId, now, inflight>>

\* a call of checkOverbooking: it reads the bookings and the settings
checkOverbookingCall(date, timeslot, singleCanoes, doubleCanoes, excludeId) ==
  /\ result' = [returned |-> "overbooking", date |-> date, timeslot |-> timeslot,
                singleCanoes |-> singleCanoes, doubleCanoes |-> doubleCanoes,
                excludeId |-> excludeId,
                value |-> checkOverbooking(reservations, settings, date, timeslot,
                                           singleCanoes, doubleCanoes, excludeId)]
  /\ UNCHANGED <<store, now, inflight>>

\* the wall clock advances between two calls
Tick ==
  /\ now < MaxTime
  /\ now' = now + 1
  /\ UNCHANGED <<store, result, inflight>>

(* ------------------------------------------------------------------ *)
(* Specification of the inventory: bookings, statuses, totals          *)
(* ------------------------------------------------------------------ *)

\* the store after initialize() on a new database
Init ==
  /\ reservations = EmptyTable
  /\ history = <<>>
  /\ settings = [total_single_canoes |-> DefaultSingle,
                 total_double_canoes |-> DefaultDouble]
  /\ client_names = EmptyTable
  /\ nextId = 1
  /\ now = 0
  /\ result = Void
  /\ inflight = EmptyTable

Ids == 1..MaxRes

\* what the form holds when it is submitted: any slot and canoe counts on the
\* first day, one booking on the second
Forms ==
  {[name |-> "Ann", date |-> "2025-06-01", nb_people |-> 1, single_canoes |-> s,
    double_canoes |-> d, arrival_time |-> "09:00", timeslot |-> ts,
    status |-> "pending"] : s \in 0..MaxSingle, d \in 0..MaxDouble, ts \in Slots}
  \cup {[name |-> "Ann", date |-> "2025-06-02", nb_people |-> 1, single_canoes |-> 1,
         double_canoes |-> 0, arrival_time |-> "09:00", timeslot |-> "morning",
         status |-> "pending"]}

\* the totals typed in the settings screen
Totals ==
  [total_single_canoes : (0 - 1)..MaxSingle, total_double_canoes : 0..MaxDouble]

StatusChange(s) == <<[key |-> "status", defined |-> TRUE, value |-> s]>>

\* the rows of a backup file: a booking that is over, one that is still to come
PastRows ==
  {[name |-> "Ann", date |-> "2025-06-01", nb_people |-> 1,
    single_canoes |-> MaxSingle, double_canoes |-> 0, arrival_time |-> "09:00",
    timeslot |-> "full_day", status |-> "completed", created_at |-> 0,
    updated_at |-> 0, actual_arrival_time |-> 0, departure_time |-> 0,
    return_time |-> 0]}

FileRows ==
  PastRows \cup
  {[name |-> "Ann", date |-> "2025-06-01", nb_people |-> 1,
    single_canoes |-> 0, double_canoes |-> MaxDouble, arrival_time |-> "09:00",
    timeslot |-> "afternoon", status |-> "pending", created_at |-> 0,
    updated_at |-> 0, actual_arrival_time |-> NULL, departure_time |-> NULL,
    return_time |-> NULL]}

\* the totals of a backup file: nothing checks them
FileTotals ==
  {[total_single_canoes |-> 0 - 1, total_double_canoes |-> MaxDouble],
   [total_single_canoes |-> 0, total_double_canoes |-> 0]}

NoTotals == [total_single_canoes |-> 0, total_double_canoes |-> 0]

\* backup files: not JSON, no reservations array, one or two rows, or no row and
\* totals
Files ==
  {[parsed |-> p, hasReservations |-> FALSE, reservations |-> <<>>,
    hasSettings |-> FALSE, settings |-> NoTotals, client_names |-> EmptyTable] :
     p \in BOOLEAN}
  \cup {[parsed |-> TRUE, hasReservations |-> TRUE, reservations |-> rows,
         hasSettings |-> FALSE, settings |-> NoTotals,
         client_names |-> ("Ann" :> [usage_count |-> Len(rows), last_used |-> 0])] :
          rows \in {<<r>> : r \in FileRows} \cup {<<r, r>> : r \in PastRows}}
  \cup {[parsed |-> TRUE, hasReservations |-> TRUE, reservations |-> <<>>,
         hasSettings |-> TRUE, settings |-> t, client_names |-> EmptyTable] :
          t \in FileTotals}

\* any call of checkOverbooking: a slot the switch does not know included
AnySlot == Slots \cup {"evening"}

editOwn(id) ==
  checkOverbookingCall(reservations[id].date, reservations[id].timeslot,
                       reservations[id].single_canoes, reservations[id].double_canoes,
                       id)

Next ==
  \/ \E data \in Forms, confirm \in BOOLEAN : onSubmit(data, confirm)
  \/ \E id \in Ids, s \in Statuses :
       Len(history) < MaxEdits /\ updateReservation(id, StatusChange(s))
  \/ \E id \in Ids : deleteReservation(id)
  \/ \E temp \in Totals : handleSave(temp)
  \/ \E file \in Files : importData(file)
  \/ \E date \in Dates : getAvailabilityCall(date)
  \/ \E id \in DOMAIN reservations : editOwn(id)

Spec == Init /\ [][Next]_vars

(* ------------------------------------------------------------------ *)
(* Specification of the overbooking check: any request against any     *)
(* store of bookings                                                   *)
(* ------------------------------------------------------------------ *)

\* forms that ask for MaxSingle single and MaxDouble double canoes
LargeForms ==
  {f \in Forms : f.single_canoes = MaxSingle /\ f.double_canoes = MaxDouble}
  \cup {f \in Forms : f.date = "2025-06-02"}

NextOverbooking ==
  \/ \E data \in LargeForms, confirm \in BOOLEAN : onSubmit(data, confirm)
  \/ \E temp \in Totals : handleSave(temp)
  \/ \E file \in Files : importData(file)
  \/ \E date \in Dates, ts \in AnySlot, sc \in 0..MaxSingle, dc \in 0..MaxDouble,
        ex \in {NoId} \cup Ids :
       checkOverbookingCall(date, ts, sc, dc, ex)
  \/ \E date \in Dates : getAvailabilityCall(date)

SpecOverbooking == Init /\ [][NextOverbooking]_vars

(* ------------------------------------------------------------------ *)
(* Specification of the lifecycle: one day of status changes and edits *)
(* ------------------------------------------------------------------ *)

\* handleStatusChange(id, status) of the dashboard and list screens: on_water and
\* completed go to the lifecycle methods, pending and canceled to updateReservation
handleStatusChange(id, status) ==
  IF status = "on_water" THEN markReservationOnWater(id)
  ELSE IF status = "completed" THEN markReservationCompleted(id)
  ELSE updateReservation(id, StatusChange(status))

\* the cancel button of SwipeableReservationCard: shown unless the booking is
\* canceled, it calls onStatusChange(id, 'canceled') once the user confirms
cancelFromCard(id) ==
  /\ id \in DOMAIN reservations
  /\ reservations[id].status # "canceled"
  /\ handleStatusChange(id, "canceled")

\* the booking the lifecycle is followed on
LifeForm ==
  [name |-> "Ann", date |-> "2025-06-01", nb_people |-> 1, single_canoes |-> 1,
   double_canoes |-> 0, arrival_time |-> "09:00", timeslot |-> "morning",
   status |-> "pending"]

Change(key, value) == [key |-> key, defined |-> TRUE, value |-> value]

\* arguments of updateReservation: a status alone, two fields that change, a
\* field that keeps its value before one that changes, keys that are not written
Edits ==
  {StatusChange(s) : s \in Statuses}
  \cup {<<Change("nb_people", 2), Change("double_canoes", 1)>>,
        <<Change("timeslot", "morning"), Change("arrival_time", "10:00")>>,
        <<Change("id", 1), Change("created_at", 0)>>,
        <<[key |-> "name", defined |-> FALSE, value |-> UNDEFINED],
          Change("status", "canceled")>>}

NextLifecycle ==
  \/ \E confirm \in BOOLEAN : onSubmit(LifeForm, confirm)
  \/ \E id \in Ids, s \in Statuses : handleStatusChange(id, s)
  \/ \E id \in Ids : cancelFromCard(id)
  \/ \E id \in Ids, s \in Statuses : updateReservationStatus(id, s)
  \/ \E id \in Ids, changes \in Edits : updateReservation(id, changes)
  \/ Tick

SpecLifecycle == Init /\ [][NextLifecycle]_vars

(* ------------------------------------------------------------------ *)
(* Specification of the store's writers: forms, test data, edits,      *)
(* copies, deletions, settings and backup files                        *)
(* ------------------------------------------------------------------ *)

\* suggestCanoeAllocation(people)
suggestCanoeAllocation(people) ==
  IF people <= 0 THEN [single |-> 0, double |-> 0]
  ELSE [single |-> people % 2, double |-> people \div 2]

\* format(today + dayOffset, 'yyyy-MM-dd')
dateOfOffset(dayOffset) == IF dayOffset = 0 THEN "2025-06-01" ELSE "2025-06-02"

\* the statuses generateTestReservations draws for a day
statusesOfOffset(dayOffset) ==
  IF dayOffset = 0 THEN Statuses
  ELSE IF dayOffset = 1 THEN {"pending", "canceled"}
  ELSE {"pending"}

\* one turn of the loop of generateTestReservations: the draws of Math.random
\* are nbPeople, the two adjustments (0 - 1 or 0), the slot, the status
generateTestReservations(nbPeople, adjustSingle, adjustDouble, timeslot, dayOffset, status) ==
  LET canoeAllocation == suggestCanoeAllocation(nbPeople)
      row == [name |-> "Ann", date |-> dateOfOffset(dayOffset), nb_people |-> nbPeople,
              single_canoes |-> Max(0, canoeAllocation.single + adjustSingle),
              double_canoes |-> Max(0, canoeAllocation.double + adjustDouble),
              arrival_time |-> IF timeslot = "afternoon" THEN "14:00" ELSE "09:00",
              timeslot |-> timeslot, status |-> status]
  IN /\ status \in statusesOfOffset(dayOffset)
     /\ CanInsert(1)
     /\ CanCount(row.name)
     /\ createReservation(row)
     /\ result' = Void
     /\ UNCHANGED <<history, settings, now, inflight>>

\* largest head count generateTestReservations is followed with
MaxPeople == 2

\* a backup file one of whose rows the table refuses: nb_people is missing
BrokenRows ==
  {[r EXCEPT !.nb_people = NULL] : r \in PastRows}

BrokenFiles ==
  {[parsed |-> TRUE, hasReservations |-> TRUE, reservations |-> rows,
    hasSettings |-> TRUE, settings |-> [total_single_canoes |-> 1,
                                       total_double_canoes |-> 1],
    client_names |-> ("Ann" :> [usage_count |-> 1, last_used |-> 0])] :
     rows \in {<<b>> : b \in BrokenRows}
              \cup {<<r, b>> : r \in PastRows, b \in BrokenRows}}

\* an edit of the head count and of the allocation
CountEdits == {<<Change("nb_people", 2), Change("double_canoes", 1)>>}

NextStore ==
  \/ \E confirm \in BOOLEAN : onSubmit(LifeForm, confirm)
  \/ \E nbPeople \in 1..MaxPeople, adjustSingle \in {0 - 1, 0}, adjustDouble \in {0 - 1, 0},
        dayOffset \in {0, 1}, status \in {"pending", "completed"} :
       generateTestReservations(nbPeople, adjustSingle, adjustDouble, "morning",
                                dayOffset, status)
  \/ \E id \in Ids, changes \in CountEdits : updateReservation(id, changes)
  \/ \E id \in Ids : duplicateReservation(id)
  \/ \E id \in Ids : deleteReservation(id)
  \/ \E file \in Files \cup BrokenFiles : importData(file)

SpecStore == Init /\ [][NextStore]_vars

(* ------------------------------------------------------------------ *)
(* Time alerts: lateness and slot-boundary anomalies. Here the clock   *)
(* reads seconds since 2025-06-01T00:00:00 local time                  *)
(* ------------------------------------------------------------------ *)

\* the date argument that was not passed (date?: string)
NoDate == ""

SecondsPerDay == 86400

\* the instant d days, h hours, m minutes and s seconds after the origin
At(d, h, m, s) == d * SecondsPerDay + h * 3600 + m * 60 + s

\* the time of day an "HH:MM" text denotes, as new Date(`...T${time}:00`) reads it
timeOfDay(time) ==
  CASE time = "09:00" -> At(0, 9, 0, 0)
    [] time = "10:00" -> At(0, 10, 0, 0)
    [] time = "12:30" -> At(0, 12, 30, 0)
    [] time = "13:00" -> At(0, 13, 0, 0)
    [] time = "14:00" -> At(0, 14, 0, 0)
    [] time = "18:00" -> At(0, 18, 0, 0)

\* the day a 'yyyy-MM-dd' text denotes
dayOf(date) == IF date = "2025-06-01" THEN 0 ELSE 1

\* format(instant, 'yyyy-MM-dd')
format(t) == dateOfOffset(t \div SecondsPerDay)

\* new Date(`${date}T${time}:00`)
newDate(date, time) == dayOf(date) * SecondsPerDay + timeOfDay(time)

\* settings.key || fallback
scheduleTime(st, key, fallback) ==
  IF key \in DOMAIN st THEN (IF st[key] = "" THEN fallback ELSE st[key])
  ELSE fallback

\* Math.floor((later.getTime() - earlier.getTime()) / (1000 * 60))
minutesBetween(earlier, later) == (later - earlier) \div 60

severityOfInclusive(minutes, limit) ==
  IF minutes >= limit THEN "error" ELSE "warning"

\* minutes > limit ? 'error' : 'warning'
severityOf(minutes, limit) ==
  IF minutes > limit THEN "error" ELSE "warning"

MorningGrace == 60
AfternoonGrace == 30

\* one turn of the loop of analyzeReservationTimeAlerts: the alerts pushed for
\* reservation r, in the order they are pushed
alertsOf(r, currentDate, st, t) ==
  LET today == format(t)
      morningStart == newDate(today, scheduleTime(st, "morning_start_time", "09:00"))
      morningEnd == newDate(today, scheduleTime(st, "morning_end_time", "13:00"))
      afternoonStart == newDate(today, scheduleTime(st, "afternoon_start_time", "14:00"))
      afternoonEnd == newDate(today, scheduleTime(st, "afternoon_end_time", "18:00"))
      early == IF r.timeslot = "afternoon" /\ t < afternoonStart
               THEN <<[alertType |-> "early_afternoon",
                       minutes |-> minutesBetween(t, afternoonStart),
                       severity |-> "warning"]>>
               ELSE <<>>
      overtime == IF r.timeslot = "morning" /\ t > morningEnd
                  THEN <<[alertType |-> "overtime_morning",
                          minutes |-> minutesBetween(morningEnd, t),
                          severity |-> severityOf(minutesBetween(morningEnd, t),
                                                  MorningGrace)]>>
                  ELSE <<>>
      general == IF r.timeslot = "morning" /\ (t < morningStart \/ t > morningEnd)
                 THEN <<>>
                 ELSE IF r.timeslot = "afternoon"
                         /\ (t < afternoonStart \/ t > afternoonEnd)
                 THEN IF t > afternoonEnd
                      THEN <<[alertType |-> "wrong_timeslot",
                              minutes |-> minutesBetween(afternoonEnd, t),
                              severity |-> severityOf(minutesBetween(afternoonEnd, t),
                                                      AfternoonGrace)]>>
                      ELSE <<>>
                 ELSE <<>>
  IN IF r.status # "on_water" \/ r.date # currentDate THEN <<>>
     ELSE early \o overtime \o general

\* analyzeReservationTimeAlerts(reservations, currentDate): the alerts, kept
\* per reservation id
analyzeReservationTimeAlerts(rs, ids, currentDate, st, t) ==
  [id \in ids |-> alertsOf(rs[id], currentDate, st, t)]

latenessOfAnyDay(r, t) ==
  IF r.status = "pending"
  THEN LET expectedTime == newDate(r.date, r.arrival_time)
       IN [isLate |-> t > expectedTime,
           lateMinutes |-> IF t > expectedTime THEN minutesBetween(expectedTime, t)
                           ELSE 0]
  ELSE [isLate |-> FALSE, lateMinutes |-> 0]

\* the lateness getReservationsWithTimeAlerts computes for reservation r
latenessOf(r, t) ==
  IF r.status = "pending" /\ r.date = format(t)
  THEN LET expectedTime == newDate(r.date, r.arrival_time)
       IN [isLate |-> t > expectedTime,
           lateMinutes |-> IF t > expectedTime THEN minutesBetween(expectedTime, t)
                           ELSE 0]
  ELSE [isLate |-> FALSE, lateMinutes |-> 0]

\* alerts.find(a => a.id === reservation.id), then the timeAlert of the result
timeAlertOf(alerts) ==
  IF alerts = <<>> THEN [defined |-> FALSE]
  ELSE [defined |-> TRUE, type |-> alerts[1].alertType,
        minutes |-> alerts[1].minutes, severity |-> alerts[1].severity]

\* getReservationsWithTimeAlerts(date?): the answer is kept with the date that
\* was passed and the instant of the call
getReservationsWithTimeAlerts(date) ==
  LET ids == getReservations(reservations, date)
      currentDate == IF date = NoDate THEN format(now) ELSE date
      alerts == analyzeReservationTimeAlerts(reservations, ids, currentDate,
                                             settings, now)
  IN /\ result' = [returned |-> "alerts", date |-> date, at |-> now,
                   alerts |-> alerts,
                   value |-> [id \in ids |->
                               [timeAlert |-> timeAlertOf(alerts[id]),
                                isLate |-> latenessOf(reservations[id], now).isLate,
                                lateMinutes |->
                                  latenessOf(reservations[id], now).lateMinutes]]]
     /\ UNCHANGED <<store, now, inflight>>

validateTimeScheduleMorningOnly(st) ==
  LET morningStart == timeOfDay(scheduleTime(st, "morning_start_time", "09:00"))
      morningEnd == timeOfDay(scheduleTime(st, "morning_end_time", "13:00"))
      afternoonStart == timeOfDay(scheduleTime(st, "afternoon_start_time", "14:00"))
  IN /\ ~(morningStart >= morningEnd)
     /\ ~(morningEnd > afternoonStart)

\* validateTimeSchedule(settings).isValid for times of the HH:MM format
validateTimeSchedule(st) ==
  LET morningStart == timeOfDay(scheduleTime(st, "morning_start_time", "09:00"))
      morningEnd == timeOfDay(scheduleTime(st, "morning_end_time", "13:00"))
      afternoonStart == timeOfDay(scheduleTime(st, "afternoon_start_time", "14:00"))
      afternoonEnd == timeOfDay(scheduleTime(st, "afternoon_end_time", "18:00"))
  IN /\ ~(morningStart >= morningEnd)
     /\ ~(afternoonStart >= afternoonEnd)
     /\ ~(morningEnd > afternoonStart)

\* the schedules handleSave lets through
Schedules ==
  {st \in [morning_start_time : {"09:00"},
           morning_end_time : {"12:30", "13:00", "18:00"},
           afternoon_start_time : {"14:00"},
           afternoon_end_time : {"18:00", "12:30", ""}] :
     /\ validateTimeSchedule(st)
     /\ st.afternoon_end_time = "" => st.morning_end_time = "13:00"}

\* the readings of the clock the alerts are followed at
Instants ==
  {At(0, 8, 59, 0), At(0, 9, 0, 0), At(0, 9, 0, 30), At(0, 9, 31, 0),
   At(0, 9, 31, 59), At(0, 12, 45, 0), At(0, 13, 0, 0), At(0, 13, 0, 30),
   At(0, 14, 0, 0), At(0, 14, 0, 59), At(0, 14, 1, 0), At(0, 14, 5, 0),
   At(0, 18, 0, 0), At(0, 18, 30, 59), At(0, 18, 31, 0),
   At(1, 9, 31, 0), At(1, 14, 5, 0)}

\* time passes
clockAdvances(t) ==
  /\ t > now
  /\ now' = t
  /\ UNCHANGED <<store, result, inflight>>

\* the bookings the alerts are followed on
AlertRows ==
  {[name |-> "Ann", date |-> date, nb_people |-> 1,
    single_canoes |-> MaxSingle, double_canoes |-> 0,
    arrival_time |-> IF timeslot = "afternoon" THEN "14:00" ELSE "09:00",
    timeslot |-> timeslot, status |-> status, created_at |-> 0,
    updated_at |-> 0,
    actual_arrival_time |-> IF status = "pending" THEN NULL ELSE 0,
    departure_time |-> IF status = "pending" THEN NULL ELSE 0,
    return_time |-> IF status = "completed" THEN 0 ELSE NULL] :
     date \in Dates, timeslot \in Slots,
     status \in {"pending", "on_water", "completed"}}

AlertStores ==
  {<<r>> : r \in AlertRows}
  \cup {<<r, o>> : r \in {a \in AlertRows : a.status = "on_water"},
                   o \in {a \in AlertRows : /\ a.timeslot = "morning"
                                            /\ a.status # "completed"
                                            /\ a.date = "2025-06-01"}}

InitAlerts ==
  /\ \E rows \in AlertStores :
       /\ reservations = importedRows(rows, 1)
       /\ nextId = Len(rows) + 1
  /\ history = <<>>
  /\ \E st \in Schedules :
       settings = [total_single_canoes |-> DefaultSingle,
                   total_double_canoes |-> DefaultDouble] @@ st
  /\ client_names = EmptyTable
  /\ now = 0
  /\ result = Void
  /\ inflight = EmptyTable

NextAlerts ==
  \/ \E t \in Instants : clockAdvances(t)
  \/ \E date \in Dates \cup {NoDate} : getReservationsWithTimeAlerts(date)

SpecAlerts == InitAlerts /\ [][NextAlerts]_vars

(* ------------------------------------------------------------------ *)
(* Daily statistics                                                    *)
(* ------------------------------------------------------------------ *)

\* rows.reduce((sum, r) => sum + r[field], 0)
RECURSIVE reduce(_, _, _)
reduce(rs, ids, field) ==
  IF ids = {} THEN 0
  ELSE LET id == CHOOSE i \in ids : TRUE
       IN rs[id][field] + reduce(rs, ids \ {id}, field)

\* totalCanoes > 0 ? (used / totalCanoes) * 100 : 0, kept as the fraction num / den
occupancy(used, totalCanoes) ==
  IF totalCanoes > 0 THEN [num |-> used * 100, den |-> totalCanoes]
  ELSE [num |-> 0, den |-> 1]

\* the filter of getDailyStats: r.status !== 'canceled'
countsInStats(r) == r.status # "canceled"

\* getDailyStats(date)
getDailyStats(rs, st, date) ==
  LET activeReservations == {id \in getReservations(rs, date) : countsInStats(rs[id])}
      morningReservations == {id \in activeReservations :
                                rs[id].timeslot = "morning" \/ rs[id].timeslot = "full_day"}
      afternoonReservations == {id \in activeReservations :
                                  rs[id].timeslot = "afternoon" \/ rs[id].timeslot = "full_day"}
      fullDayReservations == {id \in activeReservations : rs[id].timeslot = "full_day"}
      morningUsed == reduce(rs, morningReservations, "single_canoes")
                     + reduce(rs, morningReservations, "double_canoes")
      afternoonUsed == reduce(rs, afternoonReservations, "single_canoes")
                       + reduce(rs, afternoonReservations, "double_canoes")
      fullDayUsed == reduce(rs, fullDayReservations, "single_canoes")
                     + reduce(rs, fullDayReservations, "double_canoes")
      totalCanoes == st.total_single_canoes + st.total_double_canoes
  IN [date |-> date,
      total_reservations |-> Cardinality(activeReservations),
      total_people |-> reduce(rs, activeReservations, "nb_people"),
      morning_occupancy |-> occupancy(morningUsed, totalCanoes),
      afternoon_occupancy |-> occupancy(afternoonUsed, totalCanoes),
      full_day_occupancy |-> occupancy(fullDayUsed, totalCanoes)]

\* a call of getDailyStats by the statistics screen
getDailyStatsCall(date) ==
  /\ result' = [returned |-> "stats", date |-> date,
                value |-> getDailyStats(reservations, settings, date)]
  /\ UNCHANGED <<store, now, inflight>>

\* backup files that bring totals only: nothing checks them
TotalsFiles ==
  {[parsed |-> TRUE, hasReservations |-> TRUE, reservations |-> <<>>,
    hasSettings |-> TRUE, settings |-> t, client_names |-> EmptyTable] :
     t \in {[total_single_canoes |-> 0 - 1, total_double_canoes |-> 0],
            [total_single_canoes |-> 0, total_double_canoes |-> 0],
            [total_single_canoes |-> 1, total_double_canoes |-> 2]}}

NextStats ==
  \/ \E data \in Forms, confirm \in BOOLEAN : onSubmit(data, confirm)
  \/ \E id \in Ids, s \in {"completed", "canceled"} : handleStatusChange(id, s)
  \/ \E file \in TotalsFiles : importData(file)
  \/ \E date \in Dates : getDailyStatsCall(date)

SpecStats == Init /\ [][NextStats]_vars

(* ------------------------------------------------------------------ *)
(* Specification of a day with the default inventory of 10 single and  *)
(* 5 double canoes                                                     *)
(* ------------------------------------------------------------------ *)

\* the bookings typed in the form on such a day
DayForms ==
  {[name |-> "Ann", date |-> "2025-06-01", nb_people |-> 1, single_canoes |-> sd[1],
    double_canoes |-> sd[2], arrival_time |-> "09:00", timeslot |-> ts,
    status |-> "pending"] :
     sd \in {<<8, 0>>, <<2, 1>>, <<9, 0>>}, ts \in Slots}

NextDay ==
  \/ \E data \in DayForms, confirm \in BOOLEAN : onSubmit(data, confirm)
  \/ \E id \in Ids : cancelFromCard(id)
  \/ \E date \in Dates : getAvailabilityCall(date)
  \/ \E ts \in Slots, sc \in {3, 8}, ex \in {NoId} \cup Ids :
       checkOverbookingCall("2025-06-01", ts, sc, 0, ex)

SpecDay == Init /\ [][NextDay]_vars

(* ------------------------------------------------------------------ *)
(* Specification of submissions that overlap: the submit button stays  *)
(* enabled until createReservation sets loading, so a second press     *)
(* starts a second onSubmit while the first awaits its check           *)
(* ------------------------------------------------------------------ *)

\* how many presses of the submit button are followed
MaxPresses == 2

Presses == 1..MaxPresses

\* onSubmit up to the answer of checkOverbooking; the user cancels the
\* overbooking warning
onSubmitCheck(press, data) ==
  /\ press \notin DOMAIN inflight
  /\ IF data.single_canoes = 0 /\ data.double_canoes = 0
     THEN /\ result' = Alert("no canoe")
          /\ UNCHANGED <<store, now, inflight>>
     ELSE IF data.single_canoes * 1 + data.double_canoes * 2 < data.nb_people
     THEN /\ result' = Alert("capacity")
          /\ UNCHANGED <<store, now, inflight>>
     ELSE LET chk == checkOverbooking(reservations, settings, data.date,
                                      data.timeslot, data.single_canoes,
                                      data.double_canoes, NoId)
          IN IF chk.isOverbooked
             THEN /\ result' = Alert("overbooking")
                  /\ UNCHANGED <<store, now, inflight>>
             ELSE /\ inflight' = inflight @@ (press :> data)
                  /\ result' = Void
                  /\ UNCHANGED <<store, now>>

onSubmitCreateRevalidating(press) ==
  /\ press \in DOMAIN inflight
  /\ LET data == inflight[press]
         chk == checkOverbooking(reservations, settings, data.date, data.timeslot,
                                 data.single_canoes, data.double_canoes, NoId)
     IN IF chk.isOverbooked
        THEN /\ result' = Alert("overbooking")
             /\ inflight' = [p \in DOMAIN inflight \ {press} |-> inflight[p]]
             /\ UNCHANGED <<store, now>>
        ELSE /\ CanInsert(1)
             /\ CanCount(data.name)
             /\ createReservation([data EXCEPT !.status = "pending"])
             /\ inflight' = [p \in DOMAIN inflight \ {press} |-> inflight[p]]
             /\ result' = Void
             /\ UNCHANGED <<history, settings, now>>

\* the rest of onSubmit: await createReservation(data)
onSubmitCreate(press) ==
  /\ press \in DOMAIN inflight
  /\ CanInsert(1)
  /\ CanCount(inflight[press].name)
  /\ createReservation([inflight[press] EXCEPT !.status = "pending"])
  /\ inflight' = [p \in DOMAIN inflight \ {press} |-> inflight[p]]
  /\ result' = Void
  /\ UNCHANGED <<history, settings, now>>

NextOverlap ==
  \/ \E press \in Presses, data \in DayForms : onSubmitCheck(press, data)
  \/ \E press \in Presses : onSubmitCreate(press)

SpecOverlap == Init /\ [][NextOverlap]_vars

(* ------------------------------------------------------------------ *)
(* Specification of a day on which no overbooking warning is confirmed *)
(* and the totals stay as they are: submissions and status changes     *)
(* ------------------------------------------------------------------ *)

NextUnconfirmed ==
  \/ \E data \in DayForms : onSubmit(data, FALSE)
  \/ \E id \in Ids, s \in Statuses : handleStatusChange(id, s)
  \/ \E id \in Ids, s \in Statuses : updateReservationStatus(id, s)

SpecUnconfirmed == Init /\ [][NextUnconfirmed]_vars

(* ------------------------------------------------------------------ *)
(* Specification of application starts: initialize() on a database     *)
(* that holds bookings                                                 *)
(* ------------------------------------------------------------------ *)

\* CASE WHEN status = 'ongoing' THEN 'on_water' ELSE status END
migratedStatus(status) == IF status = "ongoing" THEN "on_water" ELSE status

\* the row createTables copies from reservations_old: the INSERT ... SELECT names
\* eleven columns, the three time columns of the new table keep their default
migratedRow(r) ==
  [r EXCEPT !.status = migratedStatus(@),
            !.actual_arrival_time = NULL,
            !.departure_time = NULL,
            !.return_time = NULL]

\* the largest id of the table, 0 when it is empty
maxId(rs) == IF DOMAIN rs = {} THEN 0 ELSE CHOOSE i \in DOMAIN rs : \A j \in DOMAIN rs : j <= i

\* initialize(): createTables renames reservations, creates it again and copies
\* the rows with their ids, which sets the AUTOINCREMENT sequence of the new table
\* to the largest id; migrateReservationStatuses and verifyDatabaseIntegrity each
\* insert and delete a test row, which uses two more ids.  The other tables are
\* created IF NOT EXISTS and kept.  A submission in flight ends with the process.
initialize ==
  /\ reservations' = [id \in DOMAIN reservations |-> migratedRow(reservations[id])]
  /\ nextId' = maxId(reservations) + 3
  /\ inflight' = EmptyTable
  /\ result' = [returned |-> "initialized"]
  /\ UNCHANGED <<history, settings, client_names, now>>

NextRestart ==
  \/ \E confirm \in BOOLEAN : onSubmit(LifeForm, confirm)
  \/ \E id \in Ids, s \in Statuses : handleStatusChange(id, s)
  \/ Tick
  \/ initialize

SpecRestart == Init /\ [][NextRestart]_vars

(* ------------------------------------------------------------------ *)
(* What the claims are stated with                                     *)
(* ------------------------------------------------------------------ *)

RECURSIVE SumOver(_, _, _)
SumOver(rs, ids, field) ==
  IF ids = {} THEN 0
  ELSE LET id == CHOOSE i \in ids : TRUE
       IN rs[id][field] + SumOver(rs, ids \ {id}, field)

\* the canoes of one type that the pending and on_water bookings of a date hold in
\* one half of the day
Held(rs, date, half, field) ==
  SumOver(rs, {id \in DOMAIN rs : /\ rs[id].date = date
                                  /\ rs[id].status \in {"pending", "on_water"}
                                  /\ rs[id].timeslot \in {half, "full_day"}}, field)

\* the store without its canceled and completed bookings
WithoutInactive(rs) ==
  [id \in {i \in DOMAIN rs : rs[i].status \notin {"canceled", "completed"}} |-> rs[id]]

\* the last call was checkOverbooking for the unchanged allocation of a stored
\* booking, with that booking as excludeId
IsOwnRequest ==
  /\ result.returned = "overbooking"
  /\ result.excludeId \in DOMAIN reservations
  /\ result.date = reservations[result.excludeId].date
  /\ result.timeslot = reservations[result.excludeId].timeslot
  /\ result.singleCanoes = reservations[result.excludeId].single_canoes
  /\ result.doubleCanoes = reservations[result.excludeId].double_canoes

(* ------------------------------------------------------------------ *)
(* C1                                                                  *)
(* ------------------------------------------------------------------ *)

\* C1 as stated: checkOverbooking for a stored booking's own unchanged allocation,
\* with excludeId the booking, never reports overbooking.
C1_OwnRequestNeverOverbooked ==
  IsOwnRequest => ~result.value.isOverbooked

(* ------------------------------------------------------------------ *)
(* C2                                                                  *)
(* ------------------------------------------------------------------ *)

AvailabilityFormula(av, date) ==
  /\ av.morning.single
       = Max(0, settings.total_single_canoes
                  - Held(reservations, date, "morning", "single_canoes"))
  /\ av.morning.double
       = Max(0, settings.total_double_canoes
                  - Held(reservations, date, "morning", "double_canoes"))
  /\ av.afternoon.single
       = Max(0, settings.total_single_canoes
                  - Held(reservations, date, "afternoon", "single_canoes"))
  /\ av.afternoon.double
       = Max(0, settings.total_double_canoes
                  - Held(reservations, date, "afternoon", "double_canoes"))
  /\ av.full_day.single = Min(av.morning.single, av.afternoon.single)
  /\ av.full_day.double = Min(av.morning.double, av.afternoon.double)

AvailabilityOrder(av) ==
  /\ 0 <= av.full_day.single /\ 0 <= av.full_day.double
  /\ av.full_day.single <= av.morning.single
  /\ av.full_day.double <= av.morning.double
  /\ av.full_day.single <= av.afternoon.single
  /\ av.full_day.double <= av.afternoon.double
  /\ av.morning.single <= settings.total_single_canoes
  /\ av.morning.double <= settings.total_double_canoes
  /\ av.afternoon.single <= settings.total_single_canoes
  /\ av.afternoon.double <= settings.total_double_canoes

\* C2 as stated: getAvailability returns, per canoe type, morning = max(0, total -
\* canoes of the active morning and full_day bookings), afternoon likewise,
\* full_day = min(morning, afternoon), and so 0 <= full_day <= morning <= total and
\* full_day <= afternoon <= total.
C2_FormulaAndOrder ==
  result.returned = "availability"
    => AvailabilityFormula(result.value, result.date) /\ AvailabilityOrder(result.value)

(* ------------------------------------------------------------------ *)
(* C3                                                                  *)
(* ------------------------------------------------------------------ *)

\* the canoes a pending or on_water booking holds are missing from what
\* getAvailability leaves in each half of the day the booking covers
Consumes(av, r) ==
  /\ r.timeslot \in {"morning", "full_day"} =>
       /\ av.morning.single <= Max(0, settings.total_single_canoes - r.single_canoes)
       /\ av.morning.double <= Max(0, settings.total_double_canoes - r.double_canoes)
  /\ r.timeslot \in {"afternoon", "full_day"} =>
       /\ av.afternoon.single <= Max(0, settings.total_single_canoes - r.single_canoes)
       /\ av.afternoon.double <= Max(0, settings.total_double_canoes - r.double_canoes)

\* C3: getAvailability(date) returns what it would return if the canceled and the
\* completed bookings did not exist, and every pending or on_water booking of the
\* date consumes its canoes, whatever its status was before.
C3_OnlyActiveConsume ==
  result.returned = "availability" =>
    /\ result.value = getAvailability(WithoutInactive(reservations), settings, result.date)
    /\ \A id \in DOMAIN reservations :
         (/\ reservations[id].date = result.date
          /\ reservations[id].status \in {"pending", "on_water"})
           => Consumes(result.value, reservations[id])

\* a completed booking leaves the whole inventory free, and a booking put back from
\* completed to pending holds its canoes again
C3_Witness ==
  /\ result.returned = "availability"
  /\ \E id \in DOMAIN reservations :
       /\ reservations[id].date = result.date
       /\ reservations[id].status = "pending"
       /\ reservations[id].single_canoes > 0
       /\ \E i \in DOMAIN history :
            /\ history[i].reservation_id = id
            /\ history[i].field_name = "status"
            /\ history[i].old_value = "completed"
            /\ history[i].new_value = "pending"
       /\ result.value.full_day.single < settings.total_single_canoes
  /\ \E id \in DOMAIN reservations :
       /\ reservations[id].date = result.date
       /\ reservations[id].status \in {"completed", "canceled"}

(* ------------------------------------------------------------------ *)
(* C4                                                                  *)
(* ------------------------------------------------------------------ *)

\* excludeId names a stored booking of the requested date
Excludes(date, excludeId) ==
  /\ excludeId # NoId
  /\ excludeId \in DOMAIN reservations
  /\ reservations[excludeId].date = date

\* what one half of the day has left of one canoe type for a request: what the
\* active bookings leave, plus the canoes of the excluded booking when it covers
\* that half, never more than the inventory
LeftInHalf(date, half, field, total, excludeId) ==
  LET left == Max(0, total - Held(reservations, date, half, field))
  IN IF Excludes(date, excludeId)
          /\ reservations[excludeId].timeslot \in {half, "full_day"}
     THEN Min(total, left + reservations[excludeId][field])
     ELSE left

\* what the requested slot has left of one canoe type
LeftInSlot(date, timeslot, field, total, excludeId) ==
  IF timeslot = "full_day"
  THEN Min(LeftInHalf(date, "morning", field, total, excludeId),
           LeftInHalf(date, "afternoon", field, total, excludeId))
  ELSE LeftInHalf(date, timeslot, field, total, excludeId)

\* C4: checkOverbooking for one of the three slots reports overbooking exactly
\* when the request asks for more single canoes, or more double canoes, than the
\* slot has left after the add-back of excludeId; the message then names, for each
\* canoe type asked beyond that, the excess requested - left, and gives what is
\* left of both types.
C4_OverbookedExactlyWhenExceeding ==
  (result.returned = "overbooking" /\ result.timeslot \in Slots) =>
    LET leftSingle == LeftInSlot(result.date, result.timeslot, "single_canoes",
                                 settings.total_single_canoes, result.excludeId)
        leftDouble == LeftInSlot(result.date, result.timeslot, "double_canoes",
                                 settings.total_double_canoes, result.excludeId)
        overSingle == result.singleCanoes > leftSingle
        overDouble == result.doubleCanoes > leftDouble
        msg == result.value.message
    IN /\ result.value.isOverbooked <=> (overSingle \/ overDouble)
       /\ result.value.isOverbooked =>
            /\ msg.single = leftSingle
            /\ msg.double = leftDouble
            /\ Len(msg.issues) = (IF overSingle THEN 1 ELSE 0) + (IF overDouble THEN 1 ELSE 0)
            /\ overSingle =>
                 msg.issues[1] = [canoe |-> "single",
                                  excess |-> result.singleCanoes - leftSingle]
            /\ overDouble =>
                 msg.issues[Len(msg.issues)] = [canoe |-> "double",
                                                excess |-> result.doubleCanoes - leftDouble]

\* a request reported overbooked while it is checked against more single canoes
\* than getAvailability leaves: the canoes of the pending booking being edited
\* have been added back
C4_Witness ==
  /\ result.returned = "overbooking"
  /\ result.value.isOverbooked
  /\ Excludes(result.date, result.excludeId)
  /\ reservations[result.excludeId].status = "pending"
  /\ result.value.message.single
       > getAvailability(reservations, settings, result.date)[result.timeslot].single

(* ------------------------------------------------------------------ *)
(* C5 - C10: the lifecycle                                             *)
(* ------------------------------------------------------------------ *)

\* the step appends exactly one history row: a status row of booking id, from old
\* to new
AppendsStatusRow(id, old, new) ==
  /\ Len(history') = Len(history) + 1
  /\ SubSeq(history', 1, Len(history)) = history
  /\ history'[Len(history')].reservation_id = id
  /\ history'[Len(history')].field_name = "status"
  /\ history'[Len(history')].old_value = old
  /\ history'[Len(history')].new_value = new

\* the step leaves the other bookings as they were
OthersUnchanged(id) ==
  /\ DOMAIN reservations' = DOMAIN reservations
  /\ \A other \in DOMAIN reservations \ {id} : reservations'[other] = reservations[other]

BookingFields ==
  {"name", "date", "nb_people", "single_canoes", "double_canoes", "arrival_time",
   "timeslot"}

\* C5: markReservationOnWater(id) on an existing booking sets status to on_water,
\* sets actual_arrival_time to now only if it was not set, always sets
\* departure_time to now and appends exactly one history row, for the status; a
\* second call keeps the actual_arrival_time of the first and replaces
\* departure_time by the later time.
C5_MarkOnWater ==
  [][\A id \in Ids :
       (id \in DOMAIN reservations /\ markReservationOnWater(id)) =>
         /\ reservations'[id].status = "on_water"
         /\ reservations[id].actual_arrival_time # NULL =>
              reservations'[id].actual_arrival_time = reservations[id].actual_arrival_time
         /\ reservations[id].actual_arrival_time = NULL =>
              reservations'[id].actual_arrival_time = now
         /\ reservations'[id].departure_time = now
         /\ AppendsStatusRow(id, reservations[id].status, "on_water")
         /\ (reservations[id].status = "on_water"
               /\ reservations[id].departure_time # NULL) =>
              /\ reservations'[id].actual_arrival_time
                   = reservations[id].actual_arrival_time
              /\ reservations'[id].departure_time >= reservations[id].departure_time]_vars

\* markReservationOnWater has been called twice on a pending booking, the second
\* time later than the first: the arrival is the first call's, the departure the
\* second's
C5_Witness ==
  /\ Len(history) = 2
  /\ history[1].reservation_id = history[2].reservation_id
  /\ history[1].old_value = "pending" /\ history[1].new_value = "on_water"
  /\ history[2].old_value = "on_water" /\ history[2].new_value = "on_water"
  /\ history[1].reservation_id \in DOMAIN reservations
  /\ reservations[history[1].reservation_id].actual_arrival_time = history[1].changed_at
  /\ reservations[history[1].reservation_id].departure_time = history[2].changed_at
  /\ history[1].changed_at < history[2].changed_at

\* C6: markReservationCompleted(id) on an existing booking sets status to
\* completed and return_time to now, appends exactly one history row, for the
\* status, whose old value is the status before the call, and leaves
\* actual_arrival_time, departure_time and the booking fields as they were.
C6_MarkCompleted ==
  [][\A id \in Ids :
       (id \in DOMAIN reservations /\ markReservationCompleted(id)) =>
         /\ reservations'[id].status = "completed"
         /\ reservations'[id].return_time = now
         /\ AppendsStatusRow(id, reservations[id].status, "completed")
         /\ reservations'[id].actual_arrival_time = reservations[id].actual_arrival_time
         /\ reservations'[id].departure_time = reservations[id].departure_time
         /\ \A f \in BookingFields : reservations'[id][f] = reservations[id][f]
         /\ OthersUnchanged(id)]_vars

\* a booking marked completed, then marked completed again, later: return_time is
\* the second call's, and the last history row has completed as its old value
C6_Witness ==
  /\ Len(history) = 2
  /\ history[2].new_value = "completed"
  /\ history[2].old_value = "completed"
  /\ history[1].old_value = "pending"
  /\ history[1].reservation_id = history[2].reservation_id
  /\ history[2].reservation_id \in DOMAIN reservations
  /\ LET r == reservations[history[2].reservation_id]
     IN /\ r.status = "completed"
        /\ r.return_time = history[2].changed_at
        /\ r.return_time > history[1].changed_at

\* C7 as stated: markReservationOnWater and markReservationCompleted never change
\* the status of a booking that is canceled or completed.
C7_TerminalForLifecycleActions ==
  [][\A id \in Ids :
       (/\ id \in DOMAIN reservations
        /\ reservations[id].status \in {"canceled", "completed"}
        /\ (markReservationOnWater(id) \/ markReservationCompleted(id)))
         => reservations'[id].status = reservations[id].status]_vars

\* C8 as stated: no operation of the screens moves a completed booking to canceled.
C8_NeverCanceledFromCompleted ==
  [][\A id \in Ids :
       (/\ id \in DOMAIN reservations
        /\ id \in DOMAIN reservations'
        /\ reservations[id].status = "completed")
         => reservations'[id].status # "canceled"]_vars

\* the entries of an argument of updateReservation that name a column it writes
Supplied(changes) ==
  {i \in DOMAIN changes :
     changes[i].key \notin {"id", "created_at"} /\ changes[i].defined}

\* the history rows the step appends
Appended == SubSeq(history', Len(history) + 1, Len(history'))

\* C9: updateReservation(id, changes) on an existing booking appends exactly one
\* history row (field, old value, new value) for each supplied field whose value
\* differs from the stored one, none for a supplied field whose value is the
\* stored one, and sets updated_at to now when a field is supplied.  Supplied:
\* a key other than id and created_at, with a defined value.
C9_OneRowPerChangedField ==
  [][\A id \in Ids, changes \in Edits :
       (id \in DOMAIN reservations /\ updateReservation(id, changes)) =>
         LET differing == {i \in Supplied(changes) :
                             reservations[id][changes[i].key] # changes[i].value}
         IN /\ SubSeq(history', 1, Len(history)) = history
            /\ Len(Appended) = Cardinality(differing)
            /\ \A i \in differing :
                 Cardinality({j \in DOMAIN Appended :
                    Appended[j].field_name = changes[i].key}) = 1
            /\ \A j \in DOMAIN Appended :
                 \E i \in differing :
                   /\ Appended[j].reservation_id = id
                   /\ Appended[j].field_name = changes[i].key
                   /\ Appended[j].old_value
                        = Str(changes[i].key, reservations[id][changes[i].key])
                   /\ Appended[j].new_value = Str(changes[i].key, changes[i].value)
            /\ Supplied(changes) # {} => reservations'[id].updated_at = now
            /\ \A i \in Supplied(changes) :
                 reservations'[id][changes[i].key] = changes[i].value]_vars

\* an update of two fields, later than the creation, of which only the second
\* changed: one history row, updated_at moved
C9_Witness ==
  /\ Len(history) = 1
  /\ history[1].field_name = "arrival_time"
  /\ history[1].old_value = "09:00"
  /\ history[1].new_value = "10:00"
  /\ history[1].reservation_id \in DOMAIN reservations
  /\ LET r == reservations[history[1].reservation_id]
     IN /\ r.timeslot = "morning"
        /\ r.arrival_time = "10:00"
        /\ r.updated_at > r.created_at

\* C10: updateReservation(id, {status}) changes, in the booking, only status and
\* updated_at, leaves actual_arrival_time, departure_time and return_time as they
\* were whatever the old and the new status, and appends one history row, for the
\* status (none when the status written is the stored one).
C10_StatusOverrideFrame ==
  [][\A id \in Ids, s \in Statuses :
       (id \in DOMAIN reservations /\ updateReservation(id, StatusChange(s))) =>
         /\ reservations'[id]
              = [reservations[id] EXCEPT !.status = s, !.updated_at = now]
         /\ OthersUnchanged(id)
         /\ IF s = reservations[id].status THEN history' = history
            ELSE AppendsStatusRow(id, reservations[id].status, s)
         /\ UNCHANGED settings]_vars

\* a booking that came back, then put back on_water by a status override, later:
\* return_time is still the one of the lifecycle call, departure_time is still
\* unset, and the history has the row of the override
C10_Witness ==
  \E id \in DOMAIN reservations :
    /\ reservations[id].status = "on_water"
    /\ reservations[id].return_time # NULL
    /\ reservations[id].departure_time = NULL
    /\ reservations[id].return_time < reservations[id].updated_at
    /\ Len(history) = 2
    /\ history[2].reservation_id = id
    /\ history[2].old_value = "completed"
    /\ history[2].new_value = "on_water"

(* ------------------------------------------------------------------ *)
(* C11 - C12: ids that match no reservation                            *)
(* ------------------------------------------------------------------ *)

\* C11: markReservationOnWater and markReservationCompleted called with an id
\* that matches no booking fail with an error handed to the caller and leave
\* every booking and the history as they were.
C11_MarkUnknownIdFails ==
  [][\A id \in Ids :
       (/\ id \notin DOMAIN reservations
        /\ (markReservationOnWater(id) \/ markReservationCompleted(id)))
         => /\ result'.returned = "error"
            /\ reservations' = reservations
            /\ history' = history]_vars

\* a lifecycle call on an id that is not stored has failed while another booking
\* and its history were there to be damaged
C11_Witness ==
  /\ result.returned = "error"
  /\ result = Thrown("Impossible de marquer la reservation sur l'eau")
  /\ reservations # EmptyTable
  /\ history # <<>>
  /\ \E id \in Ids : id \notin DOMAIN reservations

\* C12 as stated: updateReservation called with an id that matches no booking
\* hands a Not-Found error to the caller, as duplicateReservation does.
C12_UpdateUnknownIdFails ==
  [][\A id \in Ids, changes \in Edits :
       (id \notin DOMAIN reservations /\ updateReservation(id, changes))
         => result'.returned = "error"]_vars

(* ------------------------------------------------------------------ *)
(* C13 - C16: what the store keeps                                     *)
(* ------------------------------------------------------------------ *)

\* C13 as stated: the history is append-only (a step that deletes no booking
\* keeps every history row as it was, in place), and the rows of a booking go
\* when the booking goes, so no history row names a booking that is not stored.
C13_HistoryAppendOnlyNoOrphans ==
  [][/\ (\A id \in DOMAIN reservations : id \in DOMAIN reservations') =>
          /\ Len(history') >= Len(history)
          /\ SubSeq(history', 1, Len(history)) = history
     /\ \A j \in DOMAIN history' :
          history'[j].reservation_id \in DOMAIN reservations']_vars

\* single_canoes * 1 + double_canoes * 2 >= nb_people
CoversHeadcount(r) == r.single_canoes * 1 + r.double_canoes * 2 >= r.nb_people

\* C14 as stated: every booking stored by a create, or by an update of its head
\* count or allocation, has single_canoes + 2 * double_canoes >= nb_people; a
\* create or edit that would break this changes nothing.
C14_CapacityCoversHeadcount ==
  [][result'.returned # "import" =>
       \A id \in DOMAIN reservations' :
         (\/ id \notin DOMAIN reservations
          \/ reservations'[id].nb_people # reservations[id].nb_people
          \/ reservations'[id].single_canoes # reservations[id].single_canoes
          \/ reservations'[id].double_canoes # reservations[id].double_canoes)
           => CoversHeadcount(reservations'[id])]_vars

\* C15 as stated: the stored totals are both >= 0 and not both zero.
C15_TotalsValid ==
  /\ settings.total_single_canoes >= 0
  /\ settings.total_double_canoes >= 0
  /\ ~(settings.total_single_canoes = 0 /\ settings.total_double_canoes = 0)

\* C16 as stated: when importData returns a failure, the bookings, the client
\* names, the settings and the history are what they were before the call.
C16_FailedImportChangesNothing ==
  [][(result'.returned = "import" /\ ~result'.value) =>
       /\ reservations' = reservations
       /\ client_names' = client_names
       /\ settings' = settings
       /\ history' = history]_vars

(* ------------------------------------------------------------------ *)
(* C17: the queries                                                    *)
(* ------------------------------------------------------------------ *)

\* the last call and the one that returns now are the same query with the same
\* arguments
SameQuery ==
  /\ result.returned = result'.returned
  /\ result.date = result'.date
  /\ result'.returned = "overbooking" =>
       /\ result.timeslot = result'.timeslot
       /\ result.singleCanoes = result'.singleCanoes
       /\ result.doubleCanoes = result'.doubleCanoes
       /\ result.excludeId = result'.excludeId

\* C17: a step in which getAvailability or checkOverbooking returns leaves the
\* bookings, the history, the settings and the client names as they were, and a
\* call that follows the same call with the same arguments, with no write in
\* between, returns the same result.
C17_QueriesReadOnly ==
  [][result'.returned \in {"availability", "overbooking"} =>
       /\ reservations' = reservations
       /\ history' = history
       /\ settings' = settings
       /\ client_names' = client_names
       /\ nextId' = nextId
       /\ SameQuery => result'.value = result.value]_vars

\* checkOverbooking has accepted a request for the last single canoe of a slot,
\* and getAvailability still counts that canoe as free: the check reserved nothing
C17_Witness ==
  /\ result.returned = "overbooking"
  /\ result.timeslot \in Slots
  /\ ~result.value.isOverbooked
  /\ result.singleCanoes = 1
  /\ result.excludeId = NoId
  /\ reservations # EmptyTable
  /\ getAvailability(reservations, settings, result.date)[result.timeslot].single = 1

(* ------------------------------------------------------------------ *)
(* C18 - C20: lateness and slot-boundary anomalies                     *)
(* ------------------------------------------------------------------ *)

\* seconds from date+arrival_time of booking r to the instant t
SinceArrival(r, t) ==
  t - (dayOf(r.date) * SecondsPerDay + timeOfDay(r.arrival_time))

\* C18: in the answer of getReservationsWithTimeAlerts a booking is late
\* exactly when it is pending, dated today and the call comes after
\* date+arrival_time; then lateMinutes is the whole number of minutes elapsed
\* since the arrival time, and in every other case isLate is false and
\* lateMinutes is 0.
C18_LateExactlyWhenPendingTodayPastArrival ==
  result.returned = "alerts" =>
    \A id \in DOMAIN result.value :
      LET r == reservations[id]
          answer == result.value[id]
          elapsed == SinceArrival(r, result.at)
          late == /\ r.status = "pending"
                  /\ r.date = format(result.at)
                  /\ elapsed > 0
      IN /\ answer.isLate <=> late
         /\ late => /\ answer.lateMinutes * 60 <= elapsed
                    /\ elapsed < (answer.lateMinutes + 1) * 60
         /\ ~late => answer.lateMinutes = 0

\* a pending booking expected at 09:00 is reported 31 minutes late at 09:31
C18_Witness ==
  /\ result.returned = "alerts"
  /\ result.at = At(0, 9, 31, 0)
  /\ \E id \in DOMAIN result.value :
       /\ reservations[id].status = "pending"
       /\ reservations[id].arrival_time = "09:00"
       /\ result.value[id].isLate
       /\ result.value[id].lateMinutes = 31

\* C19: whatever date is passed to getReservationsWithTimeAlerts, a timeAlert
\* is attached only to bookings that are on the water and dated today: a
\* booking dated on another day than today never carries one.
C19_AlertOnlyOnWaterToday ==
  result.returned = "alerts" =>
    \A id \in DOMAIN result.value :
      result.value[id].timeAlert.defined =>
        /\ reservations[id].status = "on_water"
        /\ reservations[id].date = format(result.at)

\* C20: for a booking on the water, dated today, whose slot end has passed
\* (morning after morning_end, afternoon after afternoon_end) the anomaly
\* reports the whole minutes between the slot end and now, with severity error
\* exactly when the minutes exceed 60 (morning) or 30 (afternoon), otherwise
\* warning.
C20_OvertimeMinutesAndSeverity ==
  result.returned = "alerts" =>
    \A id \in DOMAIN result.value :
      LET r == reservations[id]
          alert == result.value[id].timeAlert
          today == format(result.at)
          slotEnd == IF r.timeslot = "morning"
                     THEN scheduleTime(settings, "morning_end_time", "13:00")
                     ELSE scheduleTime(settings, "afternoon_end_time", "18:00")
          over == result.at - newDate(today, slotEnd)
      IN (/\ r.status = "on_water"
          /\ r.date = today
          /\ r.timeslot \in {"morning", "afternoon"}
          /\ over > 0)
         => /\ alert.defined
            /\ alert.type = (IF r.timeslot = "morning" THEN "overtime_morning"
                             ELSE "wrong_timeslot")
            /\ alert.minutes * 60 <= over
            /\ over < (alert.minutes + 1) * 60
            /\ alert.severity =
                 (IF alert.minutes > (IF r.timeslot = "morning" THEN 60 ELSE 30)
                  THEN "error" ELSE "warning")

\* a morning booking still on the water at 14:05, the morning ending at 13:00:
\* overtime_morning, 65 minutes, error
C20_Witness ==
  /\ result.returned = "alerts"
  /\ result.at = At(0, 14, 5, 0)
  /\ settings.morning_end_time = "13:00"
  /\ \E id \in DOMAIN result.value :
       /\ reservations[id].status = "on_water"
       /\ reservations[id].timeslot = "morning"
       /\ result.value[id].timeAlert
            = [defined |-> TRUE, type |-> "overtime_morning", minutes |-> 65,
               severity |-> "error"]

(* ------------------------------------------------------------------ *)
(* C21: one anomaly record per reservation                             *)
(* ------------------------------------------------------------------ *)

\* the rules of analyzeReservationTimeAlerts, in the order they are tried
AlertRules == <<"early_afternoon", "overtime_morning", "wrong_timeslot">>

\* rule i matches booking r at the instant t under the schedule st
RuleMatches(i, r, st, t) ==
  LET today == format(t)
  IN CASE i = 1 -> /\ r.timeslot = "afternoon"
                   /\ t < newDate(today, scheduleTime(st, "afternoon_start_time", "14:00"))
       [] i = 2 -> /\ r.timeslot = "morning"
                   /\ t > newDate(today, scheduleTime(st, "morning_end_time", "13:00"))
       [] i = 3 -> /\ r.timeslot = "afternoon"
                   /\ t > newDate(today, scheduleTime(st, "afternoon_end_time", "18:00"))

\* C21: analyzeReservationTimeAlerts produces at most one anomaly record per
\* reservation, for every stored schedule and every current time, and none for
\* a full_day reservation; the record attached is that of the first rule that
\* matches.
C21_AtMostOneAnomalyFirstRuleWins ==
  result.returned = "alerts" =>
    \A id \in DOMAIN result.alerts :
      LET r == reservations[id]
          pushed == result.alerts[id]
          attached == result.value[id].timeAlert
          currentDate == IF result.date = NoDate THEN format(result.at)
                         ELSE result.date
          matching == {i \in 1..3 : /\ r.status = "on_water"
                                    /\ r.date = currentDate
                                    /\ RuleMatches(i, r, settings, result.at)}
      IN /\ Len(pushed) <= 1
         /\ r.timeslot = "full_day" => pushed = <<>> /\ ~attached.defined
         /\ attached.defined <=> matching # {}
         /\ attached.defined =>
              \E i \in matching : /\ \A j \in matching : i <= j
                                  /\ attached.type = AlertRules[i]

\* at 14:05 a full_day booking on the water has no record while a morning
\* booking on the water has exactly one
C21_Witness ==
  /\ result.returned = "alerts"
  /\ result.at = At(0, 14, 5, 0)
  /\ \E id \in DOMAIN result.alerts :
       /\ reservations[id].status = "on_water"
       /\ reservations[id].timeslot = "full_day"
       /\ reservations[id].date = "2025-06-01"
       /\ result.alerts[id] = <<>>
  /\ \E id \in DOMAIN result.alerts :
       /\ reservations[id].timeslot = "morning"
       /\ Len(result.alerts[id]) = 1

(* ------------------------------------------------------------------ *)
(* C22: daily statistics                                               *)
(* ------------------------------------------------------------------ *)

\* the bookings of a date that are not canceled and whose slot is among slots
Counted(date, slots) ==
  {id \in DOMAIN reservations : /\ reservations[id].date = date
                                /\ reservations[id].status # "canceled"
                                /\ reservations[id].timeslot \in slots}

\* the fraction f equals 100 * used / total, or 0 when total is 0
IsOccupancy(f, used, total) ==
  IF total = 0 THEN f.num = 0
  ELSE f.num * total = 100 * used * f.den

\* C22: getDailyStats(date) counts every non-canceled reservation of the date,
\* completed ones included: total_reservations is their number, total_people the
\* sum of nb_people, and each slot's occupancy is 100 * (single + double canoes
\* of the matching reservations) / (total_single + total_double), 0 when the
\* total inventory is 0; morning matches morning or full_day, afternoon matches
\* afternoon or full_day, full_day matches full_day only.
C22_DailyStats ==
  result.returned = "stats" =>
    LET stats == result.value
        all == Counted(result.date, Slots)
        total == settings.total_single_canoes + settings.total_double_canoes
        UsedBy(slots) == SumOver(reservations, Counted(result.date, slots), "single_canoes")
                         + SumOver(reservations, Counted(result.date, slots), "double_canoes")
    IN /\ stats.total_reservations = Cardinality(all)
       /\ stats.total_people = SumOver(reservations, all, "nb_people")
       /\ IsOccupancy(stats.morning_occupancy, UsedBy({"morning", "full_day"}), total)
       /\ IsOccupancy(stats.afternoon_occupancy, UsedBy({"afternoon", "full_day"}), total)
       /\ IsOccupancy(stats.full_day_occupancy, UsedBy({"full_day"}), total)

(* ------------------------------------------------------------------ *)
(* C23, C24: the scenarios of a day with 10 single and 5 double canoes *)
(* ------------------------------------------------------------------ *)

\* the pending and on_water bookings of a date
ActiveOn(date) ==
  {id \in DOMAIN reservations :
     /\ reservations[id].date = date
     /\ reservations[id].status \in {"pending", "on_water"}}

\* inventory 10 and 5, and the only active booking of the date is a morning one
\* with 8 single canoes and no double canoe
OneMorningOfEight(date) ==
  /\ settings.total_single_canoes = 10
  /\ settings.total_double_canoes = 5
  /\ \E id \in ActiveOn(date) :
       /\ ActiveOn(date) = {id}
       /\ reservations[id].timeslot = "morning"
       /\ reservations[id].single_canoes = 8
       /\ reservations[id].double_canoes = 0

\* the request of the scenario: morning, 3 single canoes, no booking excluded
ThreeSinglesAsked ==
  /\ result.returned = "overbooking"
  /\ result.timeslot = "morning"
  /\ result.singleCanoes = 3
  /\ result.doubleCanoes = 0
  /\ result.excludeId = NoId
  /\ OneMorningOfEight(result.date)

\* C23 as stated: with inventory 10 single and 5 double and one active morning
\* reservation using 8 single and 0 double, checkOverbooking for morning with
\* 3 single canoes reports overbooked, with a message citing 2 extra single
\* canoes and a remaining capacity of 2 single and 5 double.
C23_MessageCitesTwoExtra ==
  ThreeSinglesAsked
  => /\ result.value.isOverbooked
     /\ result.value.message.issues = <<[canoe |-> "single", excess |-> 2]>>
     /\ result.value.message.single = 2
     /\ result.value.message.double = 5

\* C23 as amended: in that situation checkOverbooking reports overbooked, with a
\* message citing 1 extra single canoe (3 asked, 2 left) and a remaining
\* capacity of 2 single and 5 double.
C23_MessageCitesOneExtra ==
  ThreeSinglesAsked
  => /\ result.value.isOverbooked
     /\ result.value.message.issues = <<[canoe |-> "single", excess |-> 1]>>
     /\ result.value.message.single = 2
     /\ result.value.message.double = 5

C23_Witness ==
  /\ ThreeSinglesAsked
  /\ result.value.isOverbooked
  /\ result.value.message.single = 2

\* inventory of 10 single canoes, one active full_day booking with 2 single and
\* 1 double canoes, and 9 single canoes held in the afternoon by the other
\* active bookings of the date
FullDayBesideNineAfternoon(date) ==
  /\ settings.total_single_canoes = 10
  /\ \E id \in ActiveOn(date) :
       /\ reservations[id].timeslot = "full_day"
       /\ reservations[id].single_canoes = 2
       /\ reservations[id].double_canoes = 1
       /\ \A o \in ActiveOn(date) \ {id} : reservations[o].timeslot = "afternoon"
       /\ SumOver(reservations, ActiveOn(date) \ {id}, "single_canoes") = 9

\* C24 as stated: with inventory 10 single canoes, an active full_day reservation
\* using 2 single and 1 double, and 9 single canoes used in the afternoon by
\* other active reservations, getAvailability reports full_day remaining single
\* = min(10 - 2, 10 - 9) = 1.
C24_FullDayRemainingIsOne ==
  (result.returned = "availability" /\ FullDayBesideNineAfternoon(result.date))
  => result.value.full_day.single = 1

\* C24 as amended: in that situation the full_day booking also counts in the
\* afternoon, so getAvailability reports full_day remaining single
\* = min(10 - 2, max(0, 10 - (9 + 2))) = 0.
C24_FullDayRemainingIsZero ==
  (result.returned = "availability" /\ FullDayBesideNineAfternoon(result.date))
  => /\ result.value.morning.single = 8
     /\ result.value.afternoon.single = 0
     /\ result.value.full_day.single = 0

C24_Witness ==
  /\ result.returned = "availability"
  /\ FullDayBesideNineAfternoon(result.date)
  /\ result.value.full_day.single = 0

(* ------------------------------------------------------------------ *)
(* C25: the overbooking check reserves nothing                         *)
(* ------------------------------------------------------------------ *)

\* the row of id is the booking data, pending
CreatedFrom(rs, id, data) ==
  /\ id \in DOMAIN rs
  /\ rs[id].status = "pending"
  /\ \A f \in {"date", "timeslot", "single_canoes", "double_canoes", "nb_people"} :
       rs[id][f] = data[f]

\* C25: the overbooking check does not reserve capacity.  A submission that has
\* passed its check changes nothing in the store until it commits, and it is
\* then created whatever was committed in between; so two submissions for the
\* same date and slot that each run their check before the other commits are
\* both created, and the slot's active usage can exceed the inventory without
\* an overbooking warning having been confirmed.
C25_CheckedSubmissionsAreBothCreated ==
  [][/\ \A press \in DOMAIN inflight' \ DOMAIN inflight : store' = store
     /\ \A press \in DOMAIN inflight \ DOMAIN inflight' :
          \E id \in DOMAIN reservations' \ DOMAIN reservations :
            CreatedFrom(reservations', id, inflight[press])]_vars

\* two morning bookings of the same date, both created without a confirmation,
\* hold more single canoes than the inventory has
C25_Witness ==
  /\ inflight = EmptyTable
  /\ \E a, b \in DOMAIN reservations :
       /\ a # b
       /\ reservations[a].date = reservations[b].date
       /\ reservations[a].timeslot = "morning"
       /\ reservations[b].timeslot = "morning"
       /\ IsActive(reservations[a]) /\ IsActive(reservations[b])
       /\ reservations[a].single_canoes + reservations[b].single_canoes
            > settings.total_single_canoes

(* ------------------------------------------------------------------ *)
(* C26: excluding a booking against removing it                        *)
(* ------------------------------------------------------------------ *)

\* the table of bookings without the row of id
Without(rs, id) == [i \in DOMAIN rs \ {id} |-> rs[i]]

\* C26: checkOverbooking(date, slot, s, d, excludeId = r.id) returns the same
\* isOverbooked as checkOverbooking(date, slot, s, d) on the store from which r
\* has been removed, in every reachable store, also when a slot is over capacity
\* and when r is canceled or completed.
C26_ExcludingIsRemoving ==
  (result.returned = "overbooking" /\ result.excludeId \in DOMAIN reservations)
  => result.value.isOverbooked
       = checkOverbooking(Without(reservations, result.excludeId), settings,
                          result.date, result.timeslot, result.singleCanoes,
                          result.doubleCanoes, NoId).isOverbooked

(* ------------------------------------------------------------------ *)
(* C27: active usage against the inventory                             *)
(* ------------------------------------------------------------------ *)

\* on every date the pending and on_water bookings hold, in each half of the
\* day and for each type of canoe, no more than the inventory
WithinInventory ==
  \A date \in Dates, half \in {"morning", "afternoon"} :
    /\ Held(reservations, date, half, "single_canoes") <= settings.total_single_canoes
    /\ Held(reservations, date, half, "double_canoes") <= settings.total_double_canoes

\* a status change that made a canceled or completed booking active again
IsReactivation(h) ==
  /\ h.field_name = "status"
  /\ h.old_value \in {"canceled", "completed"}
  /\ h.new_value \in {"pending", "on_water"}

\* C27 as stated: operations run one at a time, the totals are never lowered
\* and every booking is created by the form without a confirmed overbooking
\* warning; then the active bookings never hold more than the inventory,
\* whatever status changes are applied afterwards.
C27_ActiveUsageWithinInventory == WithinInventory

\* C27 as amended: under the same conditions the active bookings never hold more
\* than the inventory as long as no status change has made a canceled or
\* completed booking pending or on_water again.
C27_WithinInventoryUnlessReactivated ==
  (\A i \in DOMAIN history : ~IsReactivation(history[i])) => WithinInventory

\* a booking was canceled, its canoes were booked again, and the day is within
\* the inventory
C27_Witness ==
  /\ \E i \in DOMAIN history : history[i].new_value = "canceled"
  /\ \A i \in DOMAIN history : ~IsReactivation(history[i])
  /\ \E id \in DOMAIN reservations :
       /\ IsActive(reservations[id])
       /\ reservations[id].single_canoes = 9
       /\ Held(reservations, reservations[id].date, "morning", "single_canoes") = 9
  /\ \E id \in DOMAIN reservations :
       /\ reservations[id].status = "canceled"
       /\ reservations[id].single_canoes = 8

(* ------------------------------------------------------------------ *)
(* C28: the status history of a booking is a chain                     *)
(* ------------------------------------------------------------------ *)

\* the status rows of the history of booking id, in insertion order
StatusHistory(id) ==
  LET OfId(h) == h.reservation_id = id /\ h.field_name = "status"
  IN SelectSeq(history, OfId)

\* C28: operations running one at a time, after any sequence of
\* markReservationOnWater, markReservationCompleted, updateReservationStatus and
\* updateReservation calls the status history of a booking, read in insertion
\* order, is a chain: the first entry's old value is the status the booking was
\* created with (pending, for a booking of the form), each later entry's old
\* value is the previous entry's new value, and the last entry's new value is
\* the booking's current status.
C28_StatusHistoryIsChain ==
  \A id \in DOMAIN reservations :
    LET chain == StatusHistory(id)
    IN IF chain = <<>> THEN reservations[id].status = "pending"
       ELSE /\ chain[1].old_value = "pending"
            /\ \A i \in 2..Len(chain) : chain[i].old_value = chain[i - 1].new_value
            /\ chain[Len(chain)].new_value = reservations[id].status

\* a booking went from pending to on_water and then to canceled
C28_Witness ==
  \E id \in DOMAIN reservations :
    /\ Len(StatusHistory(id)) = 2
    /\ StatusHistory(id)[1].new_value = "on_water"
    /\ StatusHistory(id)[2].old_value = "on_water"
    /\ reservations[id].status = "canceled"

(* ------------------------------------------------------------------ *)
(* C29: departure before return                                        *)
(* ------------------------------------------------------------------ *)

\* C29: after any sequence of lifecycle actions and status overrides, a booking
\* that has both departure_time and return_time set has departure_time <=
\* return_time, so the time on the water computed from them is never negative.
C29_DepartureBeforeReturn ==
  \A id \in DOMAIN reservations :
    (reservations[id].departure_time # NULL /\ reservations[id].return_time # NULL)
      => reservations[id].departure_time <= reservations[id].return_time

(* ------------------------------------------------------------------ *)
(* C30: initialize() on a database that holds bookings                 *)
(* ------------------------------------------------------------------ *)

\* C30: running initialize() again on a database that already holds bookings
\* preserves each of them: its id, booking fields, status and its
\* actual_arrival_time, departure_time and return_time are the same after
\* initialization as before.
C30_InitializePreservesBookings ==
  [][result'.returned = "initialized" =>
       \A id \in DOMAIN reservations :
         /\ id \in DOMAIN reservations'
         /\ \A f \in {"name", "date", "nb_people", "single_canoes", "double_canoes",
                      "arrival_time", "timeslot", "status", "actual_arrival_time",
                      "departure_time", "return_time"} :
              reservations'[id][f] = reservations[id][f]]_vars

====
